---- MODULE Spec2Model ----
(***************************************************************************)
(* Vorbis audio parser (libavcodec/vorbis_parser.c).                       *)
(*                                                                         *)
(* The parser state is a VorbisParseContext.  One action, vorbis_parse,    *)
(* models one call of the parser callback: the lazy one-time header parse  *)
(* (parse_id_header, parse_setup_header) followed by the per-packet        *)
(* duration computation and the pass-through of the packet.                *)
(*                                                                         *)
(* Buffers are sequences of bytes (0..255); C index i is sequence index    *)
(* i + 1.  Bit positions in the reversed setup header count from 0.        *)
(***************************************************************************)
EXTENDS Integers, Sequences, FiniteSets, TLC

VARIABLES
    s,          \* VorbisParseContext (s1->priv_data)
    duration,   \* s1->duration
    buf,        \* the packet handed to the last call
    poutbuf,    \* *poutbuf after the last call
    poutbuf_size, \* *poutbuf_size after the last call
    ret,        \* return value of the last call
    call,       \* what the last call did: messages logged, duration assigned, indices used
    hdr,        \* record of the (single) header parse attempt
    hist        \* block sizes of the last two accepted packets (seed included)

vars == <<s, duration, buf, poutbuf, poutbuf_size, ret, call, hdr, hist>>

(***************************************************************************)
(* Bounds of the checked input space.                                      *)
(***************************************************************************)
\* leading zero bits before the framing bit in a generated setup header
MaxZeroBits == 2
\* generated setup headers carry every combination of block flags up to this many modes
MaxFlagModes == 2
\* generated plain setup headers carry 1..MaxPlainModes mode descriptors
MaxPlainModes == 65
\* packets have at most this many bytes
MaxPktLen == 2

(***************************************************************************)
(* Arithmetic helpers.                                                     *)
(***************************************************************************)
\* 1 << n
Pow2(n) == 2 ^ n

\* a & b on non-negative integers
RECURSIVE BitAnd(_, _)
BitAnd(a, b) ==
    IF a = 0 \/ b = 0 THEN 0
    ELSE (a % 2) * (b % 2) + 2 * BitAnd(a \div 2, b \div 2)

\* av_log2: floor(log2(v)), with av_log2(0) = 0
RECURSIVE av_log2(_)
av_log2(v) == IF v < 2 THEN 0 ELSE 1 + av_log2(v \div 2)

\* for (i = 0; i < buf_size; i++) rev_buf[i] = buf[buf_size - 1 - i];
Reverse(q) == <<>> \o [i \in 1..Len(q) |-> q[Len(q) + 1 - i]]

\* "vorbis"
Signature == <<118, 111, 114, 98, 105, 115>>

\* mutant of SignatureMatches: the comparison stops one byte early
SignatureMatches_FiveBytes(b) == \A i \in 1..5 : b[i + 1] = Signature[i]

\* memcmp(&buf[1], "vorbis", 6) == 0
SignatureMatches(b) == \A i \in 1..6 : b[i + 1] = Signature[i]

(***************************************************************************)
(* Bit reader (get_bits.h) over a byte buffer: most significant bit first. *)
(* A position past the buffer is outside the allocation; BitsInBuffer      *)
(* (claim C10) shows the parser never reads one, so the value given here   *)
(* for such a position is never used.                                      *)
(***************************************************************************)
\* byte j (from 0) of the buffer; the padding behind it reads as 0
ByteAt(rev, j) == IF j < Len(rev) THEN rev[j + 1] ELSE 0

\* get_bits1(&gb): the bit at position pos
get_bits1(rev, pos) == (ByteAt(rev, pos \div 8) \div Pow2(7 - (pos % 8))) % 2

\* get_bits(&gb, n), 1 <= n <= 16: the n bits from pos as an unsigned number,
\* the first bit the most significant; they lie in the three bytes from pos \div 8
get_bits(rev, pos, n) ==
    ((ByteAt(rev, pos \div 8) * 65536 + ByteAt(rev, pos \div 8 + 1) * 256
      + ByteAt(rev, pos \div 8 + 2)) \div Pow2(24 - (pos % 8) - n)) % Pow2(n)

(***************************************************************************)
(* parse_id_header                                                         *)
(***************************************************************************)
parse_id_header(st, b) ==
    IF Len(b) < 30 THEN [ret |-> -1, err |-> "HeaderTooShort", s |-> st]
    ELSE IF b[1] # 1 THEN [ret |-> -1, err |-> "WrongPacketType", s |-> st]
    ELSE IF ~SignatureMatches(b) THEN [ret |-> -1, err |-> "BadSignature", s |-> st]
    ELSE IF b[30] % 2 = 0 THEN [ret |-> -1, err |-> "MissingFramingBit", s |-> st]
    ELSE [ret |-> 0, err |-> "None",
          s |-> [st EXCEPT !.blocksize =
                    [i \in 0..1 |-> IF i = 0 THEN Pow2(b[29] % 16)
                                             ELSE Pow2(b[29] \div 16)]]]

(***************************************************************************)
(* parse_setup_header                                                      *)
(***************************************************************************)
\* Loops are run by halving: a loop of at most n iterations is its first
\* n \div 2 iterations followed by the rest.  An iteration after the loop has
\* ended changes nothing, so a loop that has ended, like a loop of one
\* iteration, is a single step.

NoFraming == [got_framing_bit |-> 0, index |-> 0, reads |-> {}]

\* the framing-bit scan has ended: the loop condition fails, or the break was taken
FramingDone(rev, fr) == fr.got_framing_bit # 0 \/ 8 * Len(rev) - fr.index <= 97

\* one iteration of while (get_bits_left(&gb) > 97)
\*     if (get_bits1(&gb)) { got_framing_bit = get_bits_count(&gb); break; }
FramingStep(rev, fr) ==
    IF FramingDone(rev, fr) THEN fr
    ELSE IF get_bits1(rev, fr.index) = 1
    THEN [got_framing_bit |-> fr.index + 1, index |-> fr.index + 1,
          reads |-> fr.reads \cup {fr.index}]
    ELSE [got_framing_bit |-> 0, index |-> fr.index + 1,
          reads |-> fr.reads \cup {fr.index}]

RECURSIVE FramingLoop(_, _, _)
FramingLoop(rev, fr, n) ==
    IF fr.got_framing_bit # 0 \/ (n <= 1 \/ 8 * Len(rev) - fr.index <= 97)
    THEN FramingStep(rev, fr)
    ELSE FramingLoop(rev, FramingLoop(rev, fr, n \div 2), n - n \div 2)

\* the framing-bit scan, from bit 0; it reads each bit at most once
FramingScan(rev) == FramingLoop(rev, NoFraming, 8 * Len(rev))

NoScan == [index |-> 0, mode_count |-> 0, got_mode_header |-> FALSE,
           last_mode_count |-> 0, reads |-> {}, stopped |-> FALSE]

\* the mode scan has ended: a break was taken, or the loop condition fails
ModeScanDone(rev, st) == st.stopped \/ 8 * Len(rev) - st.index < 97

\* mutant of ModeScanStep: nothing is scanned once a candidate mode count is found
ModeScanStep_FirstCandidate(rev, st) ==
    IF ModeScanDone(rev, st) \/ st.got_mode_header THEN st
    ELSE IF get_bits(rev, st.index, 8) > 63
    THEN [st EXCEPT !.index = st.index + 8, !.stopped = TRUE,
                    !.reads = @ \cup (st.index .. st.index + 7)]
    ELSE IF get_bits(rev, st.index + 8, 16) # 0
    THEN [st EXCEPT !.index = st.index + 24, !.stopped = TRUE,
                    !.reads = @ \cup (st.index .. st.index + 23)]
    ELSE IF get_bits(rev, st.index + 24, 16) # 0
    THEN [st EXCEPT !.index = st.index + 40, !.stopped = TRUE,
                    !.reads = @ \cup (st.index .. st.index + 39)]
    ELSE IF st.mode_count + 1 > 64
    THEN [st EXCEPT !.index = st.index + 41, !.mode_count = st.mode_count + 1,
                    !.stopped = TRUE,
                    !.reads = @ \cup (st.index .. st.index + 39)]
    ELSE [index |-> st.index + 41,
          mode_count |-> st.mode_count + 1,
          got_mode_header |-> get_bits(rev, st.index + 41, 6) + 1 = st.mode_count + 1,
          last_mode_count |-> IF get_bits(rev, st.index + 41, 6) + 1 = st.mode_count + 1
                              THEN st.mode_count + 1 ELSE st.last_mode_count,
          reads |-> st.reads \cup (st.index .. st.index + 39)
                             \cup (st.index + 41 .. st.index + 46),
          stopped |-> FALSE]

\* one iteration of the mode scan, while (get_bits_left(&gb) >= 97):
\* st = [index, mode_count, got_mode_header, last_mode_count, reads, stopped]
ModeScanStep(rev, st) ==
    IF ModeScanDone(rev, st) THEN st
    \* if (get_bits(&gb, 8) > 63 || get_bits(&gb, 16) || get_bits(&gb, 16)) break;
    ELSE IF get_bits(rev, st.index, 8) > 63
    THEN [st EXCEPT !.index = st.index + 8, !.stopped = TRUE,
                    !.reads = @ \cup (st.index .. st.index + 7)]
    ELSE IF get_bits(rev, st.index + 8, 16) # 0
    THEN [st EXCEPT !.index = st.index + 24, !.stopped = TRUE,
                    !.reads = @ \cup (st.index .. st.index + 23)]
    ELSE IF get_bits(rev, st.index + 24, 16) # 0
    THEN [st EXCEPT !.index = st.index + 40, !.stopped = TRUE,
                    !.reads = @ \cup (st.index .. st.index + 39)]
    \* skip_bits(&gb, 1); mode_count++; if (mode_count > 64) break;
    ELSE IF st.mode_count + 1 > 64
    THEN [st EXCEPT !.index = st.index + 41, !.mode_count = st.mode_count + 1,
                    !.stopped = TRUE,
                    !.reads = @ \cup (st.index .. st.index + 39)]
    \* gb0 = gb; if (get_bits(&gb0, 6) + 1 == mode_count) { ... }
    ELSE [index |-> st.index + 41,
          mode_count |-> st.mode_count + 1,
          got_mode_header |-> st.got_mode_header
                              \/ get_bits(rev, st.index + 41, 6) + 1 = st.mode_count + 1,
          last_mode_count |-> IF get_bits(rev, st.index + 41, 6) + 1 = st.mode_count + 1
                              THEN st.mode_count + 1 ELSE st.last_mode_count,
          reads |-> st.reads \cup (st.index .. st.index + 39)
                             \cup (st.index + 41 .. st.index + 46),
          stopped |-> FALSE]

RECURSIVE ModeScanLoop(_, _, _)
ModeScanLoop(rev, st, n) ==
    IF st.stopped \/ (n <= 1 \/ 8 * Len(rev) - st.index < 97)
    THEN ModeScanStep(rev, st)
    ELSE ModeScanLoop(rev, ModeScanLoop(rev, st, n \div 2), n - n \div 2)

\* the mode scan from the reader position st.index; the 65th descriptor
\* takes the break (mode_count > 64), so 65 iterations are all there can be
ModeScan(rev, st) == ModeScanLoop(rev, st, 65)

\* mutant of ModeMask: av_log2(mode_count) instead of av_log2(mode_count - 1)
ModeMask_OfCount(mode_count) == (Pow2(av_log2(mode_count) + 1) - 1) * 2

\* mode_mask = ((1 << (av_log2(mode_count - 1) + 1)) - 1) << 1
ModeMask(mode_count) == (Pow2(av_log2(mode_count - 1) + 1) - 1) * 2

\* mutant of BlocksizeStep: the mode index is off by one
BlocksizeStep_IndexOff(rev, blocksize, st) ==
    IF st.i < 0 THEN st
    ELSE [i |-> st.i - 1,
          index |-> st.index + 41,
          mode_blocksize |-> [st.mode_blocksize EXCEPT
                                ![(st.i + 1) % 64] = blocksize[get_bits1(rev, st.index + 40)]],
          reads |-> st.reads \cup {st.index + 40},
          used |-> st.used \cup {st.i + 1}]

\* mutant of BlocksizeStep: 41 bits are skipped before each flag instead of 40
BlocksizeStep_Skip41(rev, blocksize, st) ==
    IF st.i < 0 THEN st
    ELSE [i |-> st.i - 1,
          index |-> st.index + 42,
          mode_blocksize |-> [st.mode_blocksize EXCEPT
                                ![st.i] = blocksize[get_bits1(rev, st.index + 41)]],
          reads |-> st.reads \cup {st.index + 41},
          used |-> st.used \cup {st.i}]

\* one iteration of for (i = mode_count - 1; i >= 0; i--):
\*     skip_bits_long(&gb, 40); s->mode_blocksize[i] = s->blocksize[get_bits1(&gb)];
\* st = [i, index, mode_blocksize, reads, used]
BlocksizeStep(rev, blocksize, st) ==
    IF st.i < 0 THEN st
    ELSE [i |-> st.i - 1,
          index |-> st.index + 41,
          mode_blocksize |-> [st.mode_blocksize EXCEPT
                                ![st.i] = blocksize[get_bits1(rev, st.index + 40)]],
          reads |-> st.reads \cup {st.index + 40},
          used |-> st.used \cup {st.i}]

RECURSIVE BlocksizeLoop(_, _, _, _)
BlocksizeLoop(rev, blocksize, st, n) ==
    IF st.i < 0 \/ n <= 1
    THEN BlocksizeStep(rev, blocksize, st)
    ELSE BlocksizeLoop(rev, blocksize,
                       BlocksizeLoop(rev, blocksize, st, n \div 2), n - n \div 2)

\* the block-size pass, i from st.i down to 0
BlocksizePass(rev, blocksize, st) == BlocksizeLoop(rev, blocksize, st, st.i + 1)

SetupFail(st, kind, fr, sc) ==
    [ret |-> -1, err |-> kind, s |-> st, got_framing_bit |-> fr.got_framing_bit,
     framing_reads |-> fr.reads, scan |-> sc, pass_reads |-> {}, used |-> {},
     ask_for_sample |-> FALSE]

\* more than 2 modes are reported (av_log_ask_for_sample); s->mode_count,
\* s->mode_mask and s->mode_blocksize[] are stored; bp is the result of the
\* block-size pass
SetupStore(st, fr, sc, bp) ==
    [ret |-> 0, err |-> "None",
     s |-> [st EXCEPT !.mode_count = sc.last_mode_count,
                      !.mode_mask = ModeMask(sc.last_mode_count),
                      !.mode_blocksize = bp.mode_blocksize],
     got_framing_bit |-> fr.got_framing_bit,
     framing_reads |-> fr.reads,
     scan |-> sc,
     pass_reads |-> bp.reads,
     used |-> bp.used,
     ask_for_sample |-> sc.last_mode_count > 2]

\* after the mode scan sc: if (!got_mode_header) goto bad_header; else the
\* reader is set up again, skips got_framing_bit bits and the block-size pass runs
SetupModes(st, rev, fr, sc) ==
    IF ~sc.got_mode_header
    THEN SetupFail(st, "InvalidSetupHeader", fr, sc)
    ELSE SetupStore(st, fr, sc,
            BlocksizePass(rev, st.blocksize,
                [i |-> sc.last_mode_count - 1, index |-> fr.got_framing_bit,
                 mode_blocksize |-> st.mode_blocksize, reads |-> {}, used |-> {}]))

\* mutant of SetupFraming: the reader is set up again before the mode scan
SetupFraming_Restart(st, rev, fr) ==
    IF fr.got_framing_bit = 0
    THEN SetupFail(st, "InvalidSetupHeader", fr, NoScan)
    ELSE SetupModes(st, rev, fr, ModeScan(rev, NoScan))

\* after the framing-bit scan fr: if (!got_framing_bit) goto bad_header; else the
\* mode scan goes on with the same reader
SetupFraming(st, rev, fr) ==
    IF fr.got_framing_bit = 0
    THEN SetupFail(st, "InvalidSetupHeader", fr, NoScan)
    ELSE SetupModes(st, rev, fr, ModeScan(rev, [NoScan EXCEPT !.index = fr.index]))

\* with the reversed buffer rev: init_get_bits(&gb, rev_buf, buf_size * 8)
SetupReversed(st, rev) == SetupFraming(st, rev, FramingScan(rev))

\* mem: whether av_malloc(buf_size) returns a buffer
parse_setup_header(st, b, mem) ==
    IF Len(b) < 7 THEN SetupFail(st, "HeaderTooShort", NoFraming, NoScan)
    ELSE IF b[1] # 5 THEN SetupFail(st, "WrongPacketType", NoFraming, NoScan)
    ELSE IF ~SignatureMatches(b) THEN SetupFail(st, "BadSignature", NoFraming, NoScan)
    ELSE IF ~mem THEN SetupFail(st, "OutOfMemory", NoFraming, NoScan)
    ELSE SetupReversed(st, Reverse(b))

(***************************************************************************)
(* vorbis_parse                                                            *)
(***************************************************************************)
\* avpriv_split_xiph_headers(extradata, size, 30, header_start, header_len):
\* fails on a corrupt blob, else yields the three headers; only the first
\* (identification) and third (setup) are used.
avpriv_split_xiph_headers(e) ==
    IF e.ok THEN [ret |-> 0, header0 |-> e.h0, header2 |-> e.h2]
    ELSE [ret |-> -1, header0 |-> <<>>, header2 |-> <<>>]

\* mutant of MarkParsed: the attempt is not recorded
MarkParsed_Forgotten(st) == st

\* s->extradata_parsed = 1
MarkParsed(st) == [st EXCEPT !.extradata_parsed = TRUE]

NoSetup == [ret |-> 0, err |-> "NotCalled", got_framing_bit |-> 0,
            framing_reads |-> {}, scan |-> NoScan, pass_reads |-> {}, used |-> {},
            ask_for_sample |-> FALSE]

\* the trace part of a parse_setup_header result
SetupTrace(r) == [ret |-> r.ret, err |-> r.err, got_framing_bit |-> r.got_framing_bit,
                  framing_reads |-> r.framing_reads, scan |-> r.scan,
                  pass_reads |-> r.pass_reads, used |-> r.used,
                  ask_for_sample |-> r.ask_for_sample]

\* after parse_setup_header returned su: goto end, or
\* s->valid_extradata = 1; s->previous_blocksize = s->mode_blocksize[0];
HeaderSetup(su) ==
    IF su.ret < 0
    THEN [s |-> su.s, ok |-> FALSE, attempted |-> TRUE, log |-> <<su.err>>,
          id_err |-> "None", setup |-> SetupTrace(su), used |-> su.used]
    ELSE [s |-> [su.s EXCEPT !.valid_extradata = TRUE,
                             !.previous_blocksize = su.s.mode_blocksize[0]],
          ok |-> TRUE, attempted |-> TRUE,
          log |-> IF su.ask_for_sample THEN <<"AskForSample">> ELSE <<>>,
          id_err |-> "None", setup |-> SetupTrace(su), used |-> su.used \cup {0}]

\* after parse_id_header returned id: goto end, or parse the setup header
HeaderId(id, header2, mem) ==
    IF id.ret < 0
    THEN [s |-> id.s, ok |-> FALSE, attempted |-> TRUE, log |-> <<id.err>>,
          id_err |-> id.err, setup |-> NoSetup, used |-> {}]
    ELSE HeaderSetup(parse_setup_header(id.s, header2, mem))

\* after avpriv_split_xiph_headers returned split: goto end, or parse the id header
HeaderSplit(st1, split, mem) ==
    IF split.ret < 0
    THEN [s |-> st1, ok |-> FALSE, attempted |-> TRUE, log |-> <<"ExtradataCorrupt">>,
          id_err |-> "NotCalled", setup |-> NoSetup, used |-> {}]
    ELSE HeaderId(parse_id_header(st1, split.header0), split.header2, mem)

\* the header step of vorbis_parse: the block guarded by !s->extradata_parsed.
\* ok = FALSE is the goto end, which skips the packet step.
HeaderStep(st, e, mem) ==
    IF ~st.extradata_parsed /\ e.present
    THEN HeaderSplit(MarkParsed(st), avpriv_split_xiph_headers(e), mem)
    ELSE [s |-> st, ok |-> TRUE, attempted |-> FALSE, log |-> <<>>,
          id_err |-> "NotCalled", setup |-> NoSetup, used |-> {}]

\* mode = (buf[0] & s->mode_mask) >> 1
ModeOf(st, b) == BitAnd(b[1], st.mode_mask) \div 2

\* mutant of PacketStep: previous_blocksize is not updated
PacketStep_StalePrevious(st, dur, b) ==
    IF st.valid_extradata /\ Len(b) > 0
    THEN
        IF b[1] % 2 = 1
        THEN [s |-> st, duration |-> dur, assigned |-> FALSE,
              log |-> <<"InvalidPacket">>, used |-> {}]
        ELSE
            IF ModeOf(st, b) >= st.mode_count
            THEN [s |-> st, duration |-> dur, assigned |-> FALSE,
                  log |-> <<"InvalidMode">>, used |-> {}]
            ELSE [s |-> st,
                  duration |-> (st.previous_blocksize
                                + st.mode_blocksize[ModeOf(st, b)]) \div 4,
                  assigned |-> TRUE, log |-> <<>>, used |-> {ModeOf(st, b)}]
    ELSE [s |-> st, duration |-> dur, assigned |-> FALSE, log |-> <<>>, used |-> {}]

\* mutant of PacketStep: an invalid mode is logged but the packet is not skipped
PacketStep_NoSkip(st, dur, b) ==
    IF st.valid_extradata /\ Len(b) > 0
    THEN
        IF b[1] % 2 = 1
        THEN [s |-> st, duration |-> dur, assigned |-> FALSE,
              log |-> <<"InvalidPacket">>, used |-> {}]
        ELSE [s |-> [st EXCEPT !.previous_blocksize = st.mode_blocksize[ModeOf(st, b)]],
              duration |-> (st.previous_blocksize
                            + st.mode_blocksize[ModeOf(st, b)]) \div 4,
              assigned |-> TRUE,
              log |-> IF ModeOf(st, b) >= st.mode_count THEN <<"InvalidMode">> ELSE <<>>,
              used |-> {ModeOf(st, b)}]
    ELSE [s |-> st, duration |-> dur, assigned |-> FALSE, log |-> <<>>, used |-> {}]

\* the packet step of vorbis_parse: the block guarded by s->valid_extradata && buf_size > 0
PacketStep(st, dur, b) ==
    IF st.valid_extradata /\ Len(b) > 0
    THEN
        IF b[1] % 2 = 1
        THEN [s |-> st, duration |-> dur, assigned |-> FALSE,
              log |-> <<"InvalidPacket">>, used |-> {}]
        ELSE
            LET mode == ModeOf(st, b) IN
            IF mode >= st.mode_count
            THEN [s |-> st, duration |-> dur, assigned |-> FALSE,
                  log |-> <<"InvalidMode">>, used |-> {}]
            ELSE
                LET current_blocksize == st.mode_blocksize[mode]
                IN  [s |-> [st EXCEPT !.previous_blocksize = current_blocksize],
                     duration |-> (st.previous_blocksize + current_blocksize) \div 4,
                     assigned |-> TRUE, log |-> <<>>, used |-> {mode}]
    ELSE [s |-> st, duration |-> dur, assigned |-> FALSE, log |-> <<>>, used |-> {}]

\* mutant of PassThrough: the call reports no byte consumed
PassThrough_NoneConsumed(b) == [poutbuf |-> b, poutbuf_size |-> Len(b), ret |-> 0]

\* end: *poutbuf = buf; *poutbuf_size = buf_size; return buf_size;
PassThrough(b) == [poutbuf |-> b, poutbuf_size |-> Len(b), ret |-> Len(b)]

\* a packet the duration calculator accepts in state st
Accepted(st, b) ==
    /\ st.valid_extradata
    /\ Len(b) > 0
    /\ b[1] % 2 = 0
    /\ ModeOf(st, b) < st.mode_count

(***************************************************************************)
(* Inputs: packets and extradata.                                          *)
(***************************************************************************)
Zeros(n) == [i \in 1..n |-> 0]
Ones(n)  == [i \in 1..n |-> 1]

\* bit i (0 = most significant) of v written in n bits
BitOf(v, n, i) == (v \div Pow2(n - 1 - i)) % 2

\* v as n bits, most significant first
BitsOf(v, n) == [i \in 1..n |-> BitOf(v, n, i - 1)]

CorruptAt(k) == [Signature EXCEPT ![k] = 120]

\* A mode list ml = [z, fl, mapping, count, tail, pad] describes the reversed
\* stream of a setup header: z zero bits, the framing bit, one descriptor per
\* mode (the last mode first; a descriptor is mapping(8), transform type(16),
\* window type(16), block flag(1); the first descriptor carries ml.mapping), the
\* 6-bit count field, the tail bits, and pad bits up to a whole byte.
ModeListLen(ml) == ml.z + 1 + 41 * Len(ml.fl) + 6 + Len(ml.tail)

ModeListBit(ml, pos) ==
    LET m == Len(ml.fl)
        q == pos - ml.z - 1
    IN  IF pos < ml.z THEN 0
        ELSE IF pos = ml.z THEN 1
        ELSE IF q < 41 * m
             THEN IF q % 41 < 8
                  THEN (IF q < 41 THEN BitOf(ml.mapping, 8, q % 41) ELSE 0)
                  ELSE IF q % 41 < 40 THEN 0
                  ELSE ml.fl[m - (q \div 41)]
        ELSE IF q < 41 * m + 6 THEN BitOf(ml.count % 64, 6, q - 41 * m)
        ELSE IF q < 41 * m + 6 + Len(ml.tail) THEN ml.tail[q - 41 * m - 6 + 1]
        ELSE ml.pad

\* byte j (from 0) of the reversed stream
ModeListByte(ml, j) ==
    128 * ModeListBit(ml, 8 * j) + 64 * ModeListBit(ml, 8 * j + 1)
    + 32 * ModeListBit(ml, 8 * j + 2) + 16 * ModeListBit(ml, 8 * j + 3)
    + 8 * ModeListBit(ml, 8 * j + 4) + 4 * ModeListBit(ml, 8 * j + 5)
    + 2 * ModeListBit(ml, 8 * j + 6) + ModeListBit(ml, 8 * j + 7)

\* the setup header: tag, signature, then the bytes of the reversed stream, last first
SetupHeaderOf(tag, sig, ml) ==
    <<tag>> \o sig \o
    [i \in 1..((ModeListLen(ml) + 7) \div 8) |->
        ModeListByte(ml, ((ModeListLen(ml) + 7) \div 8) - i)]

ModeList(z, fl, mapping, count, tail, pad) ==
    [z |-> z, fl |-> fl, mapping |-> mapping, count |-> count, tail |-> tail, pad |-> pad]

FlagSeqs(m) == [1..m -> {0, 1}]

\* tails: bits that stop the scan; bits that match one more descriptor followed
\* by a count field of value c; nothing (the signature follows)
TailStop == Ones(18)
TailMore(c) == Zeros(35) \o BitsOf(c, 6) \o Ones(18)

FlagHeaders ==
    { SetupHeaderOf(5, Signature, ModeList(z, fl, 0, Len(fl) + 63, tl[1], tl[2])) :
        z \in 0..MaxZeroBits,
        fl \in UNION { FlagSeqs(m) : m \in 0..MaxFlagModes },
        tl \in { <<TailStop, 1>>, <<TailMore(1), 1>>, <<TailMore(2), 1>>, <<<<>>, 0>> } }

MappingHeaders ==
    { SetupHeaderOf(5, Signature, ModeList(0, fl, mp, Len(fl) + c, TailStop, 1)) :
        fl \in UNION { FlagSeqs(m) : m \in 1..MaxFlagModes },
        mp \in {63, 64}, c \in {63, 0} }

PlainHeaders ==
    { SetupHeaderOf(5, Signature,
                    ModeList(0, [i \in 1..m |-> i % 2], 0, m + 63, TailStop, 1)) :
        m \in 1..MaxPlainModes }

StructHeaders ==
    { <<5>> \o Signature, <<5, 118, 111>>,
      <<5>> \o Signature \o Zeros(5),
      <<5>> \o Signature \o Zeros(6),
      <<5>> \o Signature \o Zeros(13),
      <<5>> \o Signature \o <<128>> \o Zeros(5) }
    \cup { SetupHeaderOf(tag, sig, ModeList(0, <<1, 0>>, 0, 1, TailStop, 1)) :
            tag \in {1, 5}, sig \in {Signature, CorruptAt(1), CorruptAt(6)} }
    \cup { <<tag>> \o SubSeq(sig, 1, 5) : tag \in {1, 5}, sig \in {Signature, CorruptAt(1)} }

SetupHeaders == FlagHeaders \cup MappingHeaders \cup PlainHeaders \cup StructHeaders

\* an identification header of n bytes; bytes 28 and 29 as given
IdHeaderOf(n, tag, sig, b28, b29) ==
    <<tag>> \o sig \o
    [i \in 1..(n - 7) |-> IF i = 22 THEN b28 ELSE IF i = 23 THEN b29 ELSE 0]

GoodSetup == SetupHeaderOf(5, Signature, ModeList(0, <<0, 1>>, 0, 1, TailStop, 1))

IdHeaders ==
    { IdHeaderOf(n, tag, sig, 150, b29) :
        n \in {7, 29, 30, 31}, tag \in {1, 5},
        sig \in {Signature, CorruptAt(1), CorruptAt(6)}, b29 \in {0, 1, 254} }
    \cup { IdHeaderOf(30, 1, Signature, b28, 1) : b28 \in {0, 15, 150, 184, 255} }

Extradata(h0, h2) == [present |-> TRUE, ok |-> TRUE, h0 |-> h0, h2 |-> h2]

\* avctx->extradata NULL or avctx->extradata_size 0
NoExtradata == [present |-> FALSE, ok |-> FALSE, h0 |-> <<>>, h2 |-> <<>>]

\* a blob avpriv_split_xiph_headers rejects
CorruptExtradata == [present |-> TRUE, ok |-> FALSE, h0 |-> <<>>, h2 |-> <<>>]

Extradatas ==
    { NoExtradata, CorruptExtradata }
    \cup { Extradata(h0, GoodSetup) : h0 \in IdHeaders }
    \cup { Extradata(IdHeaderOf(30, 1, Signature, b28, 1), h2) :
            b28 \in {150, 15}, h2 \in SetupHeaders }

\* extradata offered to calls in which the allocation fails
NoMemExtradatas ==
    { NoExtradata, CorruptExtradata,
      Extradata(IdHeaderOf(30, 1, Signature, 150, 1), GoodSetup),
      Extradata(IdHeaderOf(30, 1, Signature, 150, 1), <<5>> \o CorruptAt(6) \o Zeros(13)),
      Extradata(IdHeaderOf(30, 5, Signature, 150, 1), GoodSetup) }

\* extradata offered to calls after the parse attempt (the code no longer looks at it)
LaterExtradatas ==
    { NoExtradata, CorruptExtradata,
      Extradata(IdHeaderOf(30, 1, Signature, 184, 1), GoodSetup) }

\* first bytes: modes 0..3 with bit 0 clear, bit 0 set, a bit above the mask
FirstBytes == {0, 2, 3, 4, 6, 128}

\* the empty packet, every first byte alone, and longer packets
Packets ==
    { <<>> }
    \cup { <<b>> : b \in FirstBytes }
    \cup { <<b>> \o [i \in 1..(n - 1) |-> 170] : n \in 2..MaxPktLen, b \in {2, 3} }

(***************************************************************************)
(* The state machine.                                                      *)
(***************************************************************************)
\* the context and the parser start zeroed
Init ==
    /\ s = [extradata_parsed |-> FALSE, valid_extradata |-> FALSE,
            blocksize |-> [i \in 0..1 |-> 0], previous_blocksize |-> 0,
            mode_blocksize |-> [i \in 0..63 |-> 0], mode_count |-> 0, mode_mask |-> 0]
    /\ duration = 0
    /\ buf = <<>>
    /\ poutbuf = <<>>
    /\ poutbuf_size = 0
    /\ ret = 0
    /\ call = [log |-> <<>>, assigned |-> FALSE, attempted |-> FALSE, used |-> {}]
    /\ hdr = [attempts |-> 0, extradata |-> NoExtradata, id_err |-> "NotCalled",
              setup |-> NoSetup]
    /\ hist = <<0, 0>>

\* one call vorbis_parse(s1, avctx, poutbuf, poutbuf_size, buf, buf_size)
\* with avctx->extradata = e, some packet buf = b, and av_malloc succeeding
\* (mem) or not
vorbis_parse(e, mem) ==
    \E h \in {HeaderStep(s, e, mem)}, b \in Packets :
    \E p \in {IF h.ok THEN PacketStep(h.s, duration, b)
              ELSE [s |-> h.s, duration |-> duration, assigned |-> FALSE,
                    log |-> <<>>, used |-> {}]} :
        LET o  == PassThrough(b)
            h1 == IF h.attempted /\ h.ok THEN <<0, h.s.mode_blocksize[0]>> ELSE hist
        IN  /\ s' = p.s
            /\ duration' = p.duration
            /\ buf' = b
            /\ poutbuf' = o.poutbuf
            /\ poutbuf_size' = o.poutbuf_size
            /\ ret' = o.ret
            /\ call' = [log |-> h.log \o p.log, assigned |-> p.assigned,
                        attempted |-> h.attempted, used |-> h.used \cup p.used]
            /\ hdr' = IF h.attempted
                      THEN [attempts |-> hdr.attempts + 1, extradata |-> e,
                            id_err |-> h.id_err, setup |-> h.setup]
                      ELSE hdr
            /\ hist' = IF Accepted(h.s, b) /\ h.ok
                       THEN <<h1[2], h.s.mode_blocksize[ModeOf(h.s, b)]>>
                       ELSE h1

\* the calls offered to a context: before the parse attempt any extradata,
\* with the allocation failing for some of them
CallInputs ==
    IF s.extradata_parsed
    THEN { <<e, TRUE>> : e \in LaterExtradatas }
    ELSE { <<e, TRUE>> : e \in Extradatas } \cup { <<e, FALSE>> : e \in NoMemExtradatas }

Next == \E in \in CallInputs : vorbis_parse(in[1], in[2])

Spec == Init /\ [][Next]_vars

(***************************************************************************)
(* Vocabulary of the properties.                                           *)
(***************************************************************************)
Valid == s.valid_extradata

\* a packet the duration calculator rejects in state st
Rejected(st, b) ==
    /\ Len(b) > 0
    /\ (b[1] % 2 = 1 \/ ModeOf(st, b) >= st.mode_count)

\* the headers of the parse attempt
IdHeader    == hdr.extradata.h0
SetupHeader == hdr.extradata.h2
IdCalled    == hdr.id_err # "NotCalled"
SetupCalled == hdr.setup.err # "NotCalled"

\* some byte of the 6-byte signature (bytes 1..6) that the buffer holds is wrong
SigCorrupt(b) == \E i \in 1..6 : Len(b) >= i + 1 /\ b[i + 1] # Signature[i]

\* the setup header passed the structural checks (length, tag, signature)
SetupStructureOK ==
    SetupCalled /\ hdr.setup.err \notin {"HeaderTooShort", "WrongPacketType", "BadSignature"}

\* ... and the scratch buffer was allocated, so the header was scanned
SetupScanned == SetupStructureOK /\ hdr.setup.err # "OutOfMemory"

Min(S) == CHOOSE x \in S : \A y \in S : x <= y
Max(S) == CHOOSE x \in S : \A y \in S : x >= y

\* least k with 2^k >= n
CeilLog2(n) == CHOOSE k \in 0..7 : Pow2(k) >= n /\ \A j \in 0..(k - 1) : Pow2(j) < n

\* position of the first 1 bit of the bit stream rev
FirstOne(rev) ==
    CHOOSE p \in 0..(8 * Len(rev) - 1) :
        get_bits1(rev, p) = 1 /\ \A q \in 0..(p - 1) : get_bits1(rev, q) = 0

\* at bit position pos of rev stands a mode descriptor: an 8-bit value <= 63,
\* two zero 16-bit fields and a flag bit, all inside the stream
IsDescriptor(rev, pos) ==
    /\ pos + 41 <= 8 * Len(rev)
    /\ get_bits(rev, pos, 8) <= 63
    /\ get_bits(rev, pos + 8, 16) = 0
    /\ get_bits(rev, pos + 24, 16) = 0

\* the number of descriptors (at most lim) that follow one another from pos
DescriptorRun(rev, pos, lim) ==
    Min({ k \in 0..lim : k = lim \/ ~IsDescriptor(rev, pos + 41 * k) })

\* with d the first descriptor's position and run descriptors following one
\* another from it: the stream encodes m modes (m descriptors, then the
\* 6-bit field m - 1)
EncodesAt(rev, d, run, m) ==
    /\ m <= run
    /\ d + 41 * m + 6 <= 8 * Len(rev)
    /\ get_bits(rev, d + 41 * m, 6) = m - 1

\* the block flag of mode i in a list of m modes that starts at d (last mode first)
FlagOf(rev, d, m, i) == get_bits1(rev, d + 41 * (m - 1 - i) + 40)

(***************************************************************************)
(* C1                                                                      *)
(***************************************************************************)
\* C1: every accepted packet gets duration (B(n-1) + B(n)) >> 2, where B(n)
\* is the block size of the mode of the n-th accepted packet and B(0) is
\* mode_blocksize[0]; previous_blocksize is B(n) afterwards, whatever
\* rejected packets came in between.
DurationChain ==
    /\ call.assigned <=> Accepted(s, buf)
    /\ Accepted(s, buf) =>
            /\ duration = (hist[1] + hist[2]) \div 4
            /\ hist[2] = s.mode_blocksize[ModeOf(s, buf)]
    /\ Valid => s.previous_blocksize = hist[2]

\* the example of the specification: block sizes 64 and 512, previous block
\* size 64 (the seed), a packet of mode 1
DurationChainWitness ==
    /\ Valid /\ call.assigned
    /\ hist = <<64, 512>>
    /\ duration = 144
    /\ s.previous_blocksize = 512

(***************************************************************************)
(* C2                                                                      *)
(***************************************************************************)
\* C2: with valid_extradata set, a rejected packet (bit 0 set, or mode index
\* >= mode_count) is assigned no duration and leaves the whole context as it was.
RejectedLeavesState ==
    [][ (Valid /\ Rejected(s, buf')) =>
            (s' = s /\ ~call'.assigned /\ duration' = duration /\ hist' = hist) ]_vars

\* an invalid mode arrived after the previous block size had moved off the seed
RejectedLeavesStateWitness ==
    /\ Valid
    /\ call.log = <<"InvalidMode">>
    /\ s.previous_blocksize # s.mode_blocksize[0]

(***************************************************************************)
(* C3                                                                      *)
(***************************************************************************)
FlagsStep ==
    /\ s.extradata_parsed => s'.extradata_parsed
    /\ s.valid_extradata => s'.valid_extradata
    /\ (s'.valid_extradata /\ ~s.valid_extradata) =>
            (~s.extradata_parsed /\ s'.extradata_parsed)
    /\ hdr'.attempts # hdr.attempts => (~s.extradata_parsed /\ s'.extradata_parsed)
    /\ (~s.extradata_parsed /\ s'.extradata_parsed) => hdr'.attempts = hdr.attempts + 1

\* C3: (extradata_parsed, valid_extradata) is (false,false), (true,false) or
\* (true,true) and never moves backward; the headers are parsed at most once;
\* valid_extradata is set only in the call that sets extradata_parsed.
FlagsMonotone ==
    /\ [](/\ (s.valid_extradata => s.extradata_parsed)
          /\ hdr.attempts = (IF s.extradata_parsed THEN 1 ELSE 0))
    /\ [][FlagsStep]_vars

\* a later call on a context whose header parse failed
FlagsMonotoneWitness ==
    /\ s.extradata_parsed /\ ~s.valid_extradata
    /\ ~call.attempted
    /\ Len(buf) > 0

(***************************************************************************)
(* C4                                                                      *)
(***************************************************************************)
\* C4: every call passes the packet through (output buffer and length are the
\* input's, the return value is the input length); while valid_extradata is
\* false after the header step no duration is assigned and previous_blocksize
\* stays.
PassThroughAlways ==
    /\ [](/\ poutbuf = buf
          /\ poutbuf_size = Len(buf)
          /\ ret = Len(buf)
          /\ (~Valid => ~call.assigned))
    /\ [][ ~s'.valid_extradata =>
            (s'.previous_blocksize = s.previous_blocksize /\ duration' = duration) ]_vars

\* the call whose header parse failed, with a packet of two bytes
PassThroughAlwaysWitness ==
    /\ call.attempted /\ ~Valid
    /\ Len(buf) = 2 /\ poutbuf = buf /\ ret = 2

(***************************************************************************)
(* C5                                                                      *)
(***************************************************************************)
IsBlockSize(x) == \E k \in 0..15 : x = Pow2(k)

\* C5: with valid_extradata set, 1 <= mode_count <= 64, both block sizes are
\* powers of two in 2^0..2^15, every mode_blocksize[i] with i < mode_count and
\* previous_blocksize is one of the two block sizes, and every index used on
\* mode_blocksize is < mode_count.
ValidContext ==
    Valid =>
        /\ s.mode_count \in 1..64
        /\ \A i \in 0..1 : IsBlockSize(s.blocksize[i])
        /\ \A i \in 0..(s.mode_count - 1) :
                s.mode_blocksize[i] \in {s.blocksize[0], s.blocksize[1]}
        /\ s.previous_blocksize \in {s.blocksize[0], s.blocksize[1]}
        /\ call.used \subseteq 0..(s.mode_count - 1)
        /\ hdr.setup.used = 0..(s.mode_count - 1)

\* a packet of mode 2 accepted in a context of three modes
ValidContextWitness ==
    /\ Valid /\ s.mode_count = 3
    /\ call.used = {2}
    /\ s.blocksize[0] # s.blocksize[1]

(***************************************************************************)
(* C6                                                                      *)
(***************************************************************************)
\* C6 as stated: a corrupted signature yields BadSignature in either header,
\* whatever the other bytes are (byte 0 included); taken over the headers
\* long enough to hold every byte their parser looks at.
SigCorruptIsBadSignature ==
    /\ (IdCalled /\ Len(IdHeader) >= 30 /\ SigCorrupt(IdHeader)) =>
            hdr.id_err = "BadSignature"
    /\ (SetupCalled /\ Len(SetupHeader) >= 7 /\ SigCorrupt(SetupHeader)) =>
            hdr.setup.err = "BadSignature"

\* C6 amended: a corrupted signature always fails the header; the outcome is
\* BadSignature when the header has its minimum length and byte 0 is the
\* header's tag, HeaderTooShort when it is too short, WrongPacketType otherwise.
SigCorruptFails ==
    /\ (IdCalled /\ SigCorrupt(IdHeader)) =>
            hdr.id_err = (IF Len(IdHeader) < 30 THEN "HeaderTooShort"
                          ELSE IF IdHeader[1] # 1 THEN "WrongPacketType"
                          ELSE "BadSignature")
    /\ (SetupCalled /\ SigCorrupt(SetupHeader)) =>
            hdr.setup.err = (IF Len(SetupHeader) < 7 THEN "HeaderTooShort"
                             ELSE IF SetupHeader[1] # 5 THEN "WrongPacketType"
                             ELSE "BadSignature")

\* a setup header with the right tag whose last signature byte is wrong
SigCorruptFailsWitness ==
    /\ SetupCalled /\ Len(SetupHeader) >= 7
    /\ SigCorrupt(SetupHeader) /\ SetupHeader[1] = 5 /\ SetupHeader[7] # 115
    /\ hdr.setup.err = "BadSignature"

(***************************************************************************)
(* C7                                                                      *)
(***************************************************************************)
\* the context holds m modes with the block sizes the flags of the list at d select
RecoversModes(rev, d, m) ==
    /\ s.mode_count = m
    /\ \A i \in 0..(m - 1) : s.mode_blocksize[i] = s.blocksize[FlagOf(rev, d, m, i)]
    /\ s.mode_mask = 2

ModesExact(rev, d, run) ==
    \A m \in 1..2 : EncodesAt(rev, d, run, m) => (Valid /\ RecoversModes(rev, d, m))

ModesAtLeast(rev, d, run) ==
    \A m \in 1..2 :
        EncodesAt(rev, d, run, m) =>
            /\ Valid
            /\ s.mode_count >= m
            /\ s.mode_mask = ModeMask(s.mode_count)
            /\ EncodesAt(rev, d, run, s.mode_count)
            /\ (~(\E k \in (m + 1)..64 : EncodesAt(rev, d, run, k)) =>
                    RecoversModes(rev, d, m))

ScanStartsAtZero ==
    hdr.setup.scan.reads # {} => Min(hdr.setup.scan.reads) = 0

\* C8 amended: the mode scan runs exactly when a framing bit was found, and it
\* starts reading at the bit right after the framing bit, where the
\* framing-bit scan left the reader.
ScanStartsAfterFramingBit ==
    /\ hdr.setup.scan.reads # {} <=> hdr.setup.got_framing_bit # 0
    /\ hdr.setup.scan.reads # {} =>
            /\ Min(hdr.setup.scan.reads) = hdr.setup.got_framing_bit
            /\ Max(hdr.setup.framing_reads) = hdr.setup.got_framing_bit - 1

\* a framing bit behind two zero bits, and two modes found after it
ScanStartsAfterFramingBitWitness ==
    /\ hdr.setup.got_framing_bit = 3
    /\ hdr.setup.scan.mode_count = 2
    /\ Min(hdr.setup.scan.reads) = 3

(***************************************************************************)
(* C9                                                                      *)
(***************************************************************************)
\* C9 as stated: mode_mask = ((1 << ceil(log2(mode_count))) - 1) << 1 for
\* every mode_count in 1..64.
MaskIsCeilLog2 ==
    Valid => s.mode_mask = (Pow2(CeilLog2(s.mode_count)) - 1) * 2

\* C9 amended: the mask has max(1, ceil(log2(mode_count))) one-bits from bit 1
\* up: as stated for mode_count in 2..64, and the one bit 1 (mask 2) for
\* mode_count = 1.
MaskIsCeilLog2AtLeastOne ==
    Valid => s.mode_mask =
                (Pow2(IF s.mode_count = 1 THEN 1 ELSE CeilLog2(s.mode_count)) - 1) * 2

\* 33 modes need six bits
MaskIsCeilLog2Witness ==
    Valid /\ s.mode_count = 33 /\ s.mode_mask = 126

(***************************************************************************)
(* C10                                                                     *)
(***************************************************************************)
SetupReads == hdr.setup.framing_reads \cup hdr.setup.scan.reads \cup hdr.setup.pass_reads

\* C10: every bit parse_setup_header reads lies inside the buffer, and the
\* block-size pass reads exactly the bits f + 41 k + 40, k < mode_count, each
\* of which the mode scan consumed.
BitsInBuffer ==
    SetupStructureOK =>
        /\ \A p \in SetupReads : p >= 0 /\ p < 8 * Len(SetupHeader)
        /\ hdr.setup.scan.index <= 8 * Len(SetupHeader)
        /\ hdr.setup.err = "None" =>
            /\ hdr.setup.pass_reads =
                    { hdr.setup.got_framing_bit + 41 * k + 40 : k \in 0..(s.mode_count - 1) }
            /\ hdr.setup.pass_reads \subseteq
                    hdr.setup.got_framing_bit .. (hdr.setup.scan.index - 1)

\* a header of 64 modes: the last flag read is bit 1 + 41 * 63 + 40
BitsInBufferWitness ==
    /\ hdr.setup.err = "None"
    /\ s.mode_count = 64
    /\ hdr.setup.got_framing_bit = 1
    /\ 2624 \in hdr.setup.pass_reads
====
